---- MODULE Spec2Model ----
(***************************************************************************)
(* State-machine model of the HomeClient component (home-client.tsx):      *)
(* the filter engine, the selection reconciliation effect and the booking  *)
(* inquiry form of the Encore music booking page.                          *)
(*                                                                         *)
(* Program state is the component's useState cells.  The passive effect    *)
(* (useEffect) is its own step: it runs after a render whose dependencies  *)
(* [filteredArtists, selectedArtistId] differ from those of the render it  *)
(* last ran for.  Event handlers run on rendered (settled) pages only,     *)
(* because React flushes pending passive effects before it dispatches the  *)
(* next event.                                                             *)
(***************************************************************************)
EXTENDS Integers, Sequences, FiniteSets, TLC

(* ------------------------------ bounds --------------------------------- *)

\* longest roster handed to the component
MaxRoster == 3

\* how many of the eventTypes options the select is driven through
MaxEventTypes == 2

(* ------------------------- injected static data ------------------------ *)

\* Artist records (the fields the logic reads): id, name, genres, location,
\* rate, availability.  The catalogue is chosen so that one artist carries
\* two genres, two artists share a genre, two share a location, two share a
\* rate, two share a slot label, and some criteria (Soul under 100, or Soul in
\* LA when a3 is absent) match nobody.
Catalogue ==
  << [id |-> "a1", name |-> "Ava", genres |-> <<"Jazz", "Soul">>,
      location |-> "NYC", rate |-> 200, availability |-> <<"s1", "s2">>],
     [id |-> "a2", name |-> "Ben", genres |-> <<"Jazz">>,
      location |-> "LA", rate |-> 100, availability |-> <<"s2">>],
     [id |-> "a3", name |-> "Cy", genres |-> <<"Soul">>,
      location |-> "LA", rate |-> 200, availability |-> <<"s3">>] >>

\* the catalogue entries at the positions in S, in catalogue order
SubList(S) ==
  LET picked(artist) == \E i \in S : Catalogue[i] = artist
  IN SelectSeq(Catalogue, picked)

\* rosters: the sub-lists of the catalogue of at most MaxRoster artists,
\* the empty one too
Rosters ==
  { SubList(S) : S \in { T \in SUBSET DOMAIN Catalogue : Cardinality(T) <= MaxRoster } }

\* text a visitor types into a form field
Texts == {"", "x"}

(* ------------------------- program constants --------------------------- *)

eventTypes ==
  << "Corporate Gala", "Private Celebration", "Wedding",
     "Brand Activation", "Festival Stage", "Hospitality Lounge" >>

\* step of the budget range input
BudgetStep == 100

\* successMessage === null
NoMessage == <<>>

SelectPrompt == << "Select an artist and availability to confirm a request." >>

ContactPrompt == << "Please include your name and email so we can follow up." >>

\* the template literal of handleSubmit, as the list of its pieces
SentMessage(name, slot) ==
  << "Booking inquiry sent for ", name, " on ", slot,
     ". Expect a response within 24 hours." >>

EmptyForm == [plannerName |-> "", plannerEmail |-> "", eventDetails |-> ""]

(* ------------------------------- state --------------------------------- *)

VARIABLES
  initialArtists,        \* props.initialArtists
  genreFilter,
  locationFilter,
  budget,
  eventType,
  selectedArtistId,
  selectedAvailability,
  formState,
  successMessage,
  effectDeps,            \* dependencies the reconciliation effect last ran for
  lastEvent,             \* history: the last user event
  pre                    \* history: the selection just before that event

vars == << initialArtists, genreFilter, locationFilter, budget, eventType,
           selectedArtistId, selectedAvailability, formState, successMessage,
           effectDeps, lastEvent, pre >>

(* --------------------------- derived values ---------------------------- *)

Max2(a, b) == IF a >= b THEN a ELSE b

Min2(a, b) == IF a <= b THEN a ELSE b

RECURSIVE ReduceMax(_, _, _)
ReduceMax(arr, i, currentMax) ==
  IF i > Len(arr) THEN currentMax
  ELSE ReduceMax(arr, i + 1, Max2(currentMax, arr[i].rate))

RECURSIVE ReduceMin(_, _, _)
ReduceMin(arr, i, currentMin) ==
  IF i > Len(arr) THEN currentMin
  ELSE ReduceMin(arr, i + 1, Min2(currentMin, arr[i].rate))

maxRate == ReduceMax(initialArtists, 1,
                     IF Len(initialArtists) > 0 THEN initialArtists[1].rate ELSE 0)

minRate == ReduceMin(initialArtists, 1,
                     IF Len(initialArtists) > 0 THEN initialArtists[1].rate ELSE 0)

\* Number.isFinite(minRate) holds for every roster of numeric rates
resolvedMinRate == minRate

\* variant: the lower end of the slider taken for the upper end
resolvedMaxRate_Min == resolvedMinRate

resolvedMaxRate == Max2(resolvedMinRate, maxRate)

uniqueGenres ==
  UNION { { initialArtists[i].genres[k] : k \in DOMAIN initialArtists[i].genres } :
            i \in DOMAIN initialArtists }

uniqueLocations == { initialArtists[i].location : i \in DOMAIN initialArtists }

\* values the range input can report: min, min + step, ... up to max
BudgetValues ==
  { b \in resolvedMinRate..resolvedMaxRate :
      (b - resolvedMinRate) % BudgetStep = 0 }

matchesGenre(artist, genre) ==
  genre = "All" \/ \E k \in DOMAIN artist.genres : artist.genres[k] = genre

matchesLocation(artist, location) ==
  location = "All" \/ artist.location = location

\* variant: the budget ceiling taken as exclusive
matchesBudget_Exclusive(artist, ceiling) == artist.rate < ceiling

matchesBudget(artist, ceiling) == artist.rate <= ceiling

FilterArtists(artists, genre, location, ceiling) ==
  LET keep(artist) == /\ matchesGenre(artist, genre)
                      /\ matchesLocation(artist, location)
                      /\ matchesBudget(artist, ceiling)
  IN SelectSeq(artists, keep)

filteredArtists ==
  FilterArtists(initialArtists, genreFilter, locationFilter, budget)

\* Array.prototype.find: the set holding the first match; {} stands for null
FindById(artists, id) ==
  LET hits == { i \in DOMAIN artists : artists[i].id = id }
  IN IF hits = {} THEN {}
     ELSE { artists[CHOOSE i \in hits : \A j \in hits : i <= j] }

selectedArtist == FindById(filteredArtists, selectedArtistId)

(* ----------------------- effect scheduling ----------------------------- *)

\* filteredArtists is a new array exactly when one of its useMemo inputs
\* changed, so the criteria stand for the array's identity
CurrentDeps == << genreFilter, locationFilter, budget, selectedArtistId >>

Settled == effectDeps = CurrentDeps

\* what the history keeps of the state an event handler starts from
Snapshot ==
  [ selectedArtistId |-> selectedArtistId,
    selectedAvailability |-> selectedAvailability ]

\* A user event: dispatched on a settled page.  The history records which
\* control was used and its argument (for a filter control the value it
\* replaces, for a Request button the artist, for a pill the slot, for the
\* submit button the message it replaces).
Event(op, arg) ==
  /\ Settled
  /\ lastEvent' = << op, arg >>
  /\ pre' = Snapshot
  /\ UNCHANGED << initialArtists, effectDeps >>

(* ------------------------------- Init ---------------------------------- *)

Init ==
  /\ initialArtists \in Rosters
  /\ genreFilter = "All"
  /\ locationFilter = "All"
  /\ budget = resolvedMaxRate
  /\ eventType = eventTypes[1]
  /\ selectedArtistId =
       IF Len(initialArtists) > 0 THEN initialArtists[1].id ELSE ""
  /\ selectedAvailability = ""
  /\ formState = EmptyForm
  /\ successMessage = NoMessage
  /\ effectDeps = <<>>
  /\ lastEvent = << "mount", "" >>
  /\ pre = Snapshot

(* --------------------- reconciliation effect --------------------------- *)

\* variant: a selection that left the list is kept (only its slot is dropped)
ReconcileSelection_KeepsHidden(filtered, id, slot) ==
  IF Len(filtered) = 0 THEN << "", "" >>
  ELSE LET stillVisible == \E i \in DOMAIN filtered : filtered[i].id = id
       IN IF ~stillVisible THEN << id, "" >>
          ELSE << id, slot >>

\* variant: an empty list clears the artist but not the slot
ReconcileSelection_KeepsSlotOnEmpty(filtered, id, slot) ==
  IF Len(filtered) = 0 THEN << "", slot >>
  ELSE LET stillVisible == \E i \in DOMAIN filtered : filtered[i].id = id
       IN IF ~stillVisible THEN << filtered[1].id, "" >>
          ELSE << id, slot >>

\* variant: the selection moves to the last element instead of the first
ReconcileSelection_TakesLast(filtered, id, slot) ==
  IF Len(filtered) = 0 THEN << "", "" >>
  ELSE LET stillVisible == \E i \in DOMAIN filtered : filtered[i].id = id
       IN IF ~stillVisible THEN << filtered[Len(filtered)].id, "" >>
          ELSE << id, slot >>

\* variant: the slot is dropped on every run over a non-empty list
ReconcileSelection_DropsSlot(filtered, id, slot) ==
  IF Len(filtered) = 0 THEN << "", "" >>
  ELSE LET stillVisible == \E i \in DOMAIN filtered : filtered[i].id = id
       IN IF ~stillVisible THEN << filtered[1].id, "" >>
          ELSE << id, "" >>

\* variant: the empty-list branch is missing, the selection stays as it is
ReconcileSelection_SkipsEmpty(filtered, id, slot) ==
  IF Len(filtered) = 0 THEN << id, slot >>
  ELSE LET stillVisible == \E i \in DOMAIN filtered : filtered[i].id = id
       IN IF ~stillVisible THEN << filtered[1].id, "" >>
          ELSE << id, slot >>

\* variant: an empty selection is taken as nothing to repair
ReconcileSelection_IgnoresUnselected(filtered, id, slot) ==
  IF Len(filtered) = 0 THEN << "", "" >>
  ELSE LET stillVisible == \E i \in DOMAIN filtered : filtered[i].id = id
       IN IF ~stillVisible /\ id # "" THEN << filtered[1].id, "" >>
          ELSE << id, slot >>

\* body of the useEffect: the pair <<selectedArtistId, selectedAvailability>>
\* its setters leave behind
ReconcileSelection(filtered, id, slot) ==
  IF Len(filtered) = 0 THEN << "", "" >>
  ELSE LET stillVisible == \E i \in DOMAIN filtered : filtered[i].id = id
       IN IF ~stillVisible THEN << filtered[1].id, "" >>
          ELSE << id, slot >>

Reconcile ==
  /\ ~Settled
  /\ LET next == ReconcileSelection(filteredArtists, selectedArtistId,
                                    selectedAvailability)
     IN /\ selectedArtistId' = next[1]
        /\ selectedAvailability' = next[2]
  /\ effectDeps' = CurrentDeps
  /\ UNCHANGED << initialArtists, genreFilter, locationFilter, budget,
                  eventType, formState, successMessage, lastEvent, pre >>

(* --------------------------- filter controls --------------------------- *)

SetGenreFilter ==
  \E genre \in {"All"} \cup uniqueGenres :
    /\ Event("setGenreFilter", genreFilter)
    /\ genreFilter' = genre
    /\ UNCHANGED << locationFilter, budget, eventType, selectedArtistId,
                    selectedAvailability, formState, successMessage >>

SetLocationFilter ==
  \E location \in {"All"} \cup uniqueLocations :
    /\ Event("setLocationFilter", locationFilter)
    /\ locationFilter' = location
    /\ UNCHANGED << genreFilter, budget, eventType, selectedArtistId,
                    selectedAvailability, formState, successMessage >>

SetBudget ==
  \E value \in BudgetValues :
    /\ Event("setBudget", budget)
    /\ budget' = value
    /\ UNCHANGED << genreFilter, locationFilter, eventType, selectedArtistId,
                    selectedAvailability, formState, successMessage >>

\* the Event Format select of the filter card (the panel's text input writes
\* the same cell; no handler or effect reads it)
SetEventType ==
  \E i \in 1..MaxEventTypes :
    /\ Event("setEventType", "")
    /\ eventType' = eventTypes[i]
    /\ UNCHANGED << genreFilter, locationFilter, budget, selectedArtistId,
                    selectedAvailability, formState, successMessage >>

(* ------------------------------ handlers ------------------------------- *)

\* variant: Request changes the artist but keeps the chosen slot
HandleBookClick_KeepsSlot ==
  \E i \in DOMAIN filteredArtists :
    /\ Event("handleBookClick", filteredArtists[i].id)
    /\ selectedArtistId' = filteredArtists[i].id
    /\ successMessage' = NoMessage
    /\ UNCHANGED << genreFilter, locationFilter, budget, eventType, formState,
                    selectedAvailability >>

\* variant: Request leaves the status message on display
HandleBookClick_KeepsMessage ==
  \E i \in DOMAIN filteredArtists :
    /\ Event("handleBookClick", filteredArtists[i].id)
    /\ selectedArtistId' = filteredArtists[i].id
    /\ selectedAvailability' = ""
    /\ UNCHANGED << genreFilter, locationFilter, budget, eventType, formState,
                    successMessage >>

\* Request button of a rendered card
HandleBookClick ==
  \E i \in DOMAIN filteredArtists :
    /\ Event("handleBookClick", filteredArtists[i].id)
    /\ selectedArtistId' = filteredArtists[i].id
    /\ selectedAvailability' = ""
    /\ successMessage' = NoMessage
    /\ UNCHANGED << genreFilter, locationFilter, budget, eventType, formState >>

\* variant: the updater always takes the clicked slot
handleAvailabilityClick_NoToggle(current, slot) == slot

\* the updater handed to setSelectedAvailability
handleAvailabilityClick(current, slot) == IF current = slot THEN "" ELSE slot

\* availability pill on a card: handleBookClick then handleAvailabilityClick
\* in one batch, so the updater sees the "" queued by handleBookClick
CardPillClick ==
  \E i \in DOMAIN filteredArtists :
    \E k \in DOMAIN filteredArtists[i].availability :
      LET artist == filteredArtists[i]
          slot == artist.availability[k]
      IN /\ Event("cardPill", << artist.id, slot >>)
         /\ selectedArtistId' = artist.id
         /\ selectedAvailability' = handleAvailabilityClick("", slot)
         /\ successMessage' = NoMessage
         /\ UNCHANGED << genreFilter, locationFilter, budget, eventType,
                         formState >>

\* slot pill of the booking panel, rendered for the selected artist
PanelPillClick ==
  \E artist \in selectedArtist :
    \E k \in DOMAIN artist.availability :
      /\ Event("panelPill", artist.availability[k])
      /\ selectedAvailability' =
           handleAvailabilityClick(selectedAvailability, artist.availability[k])
      /\ UNCHANGED << genreFilter, locationFilter, budget, eventType,
                      selectedArtistId, formState, successMessage >>

\* the three inputs of the form, rendered when an artist is selected
HandleFormChange ==
  /\ selectedArtist # {}
  /\ \E field \in {"plannerName", "plannerEmail", "eventDetails"} :
       \E value \in Texts :
         /\ Event("handleFormChange", "")
         /\ formState' = [formState EXCEPT ![field] = value]
         /\ UNCHANGED << genreFilter, locationFilter, budget, eventType,
                         selectedArtistId, selectedAvailability, successMessage >>

\* variant: a successful submit leaves the event details in the form
SubmitResult_KeepsDetails(selected, slot, form) ==
  IF selected = {} \/ slot = "" THEN << SelectPrompt, form, slot >>
  ELSE IF form.plannerName = "" \/ form.plannerEmail = ""
       THEN << ContactPrompt, form, slot >>
       ELSE LET artist == CHOOSE a \in selected : TRUE
            IN << SentMessage(artist.name, slot),
                  [EmptyForm EXCEPT !.eventDetails = form.eventDetails], "" >>

\* variant: the name/email check comes before the artist/slot check
SubmitResult_ContactFirst(selected, slot, form) ==
  IF form.plannerName = "" \/ form.plannerEmail = ""
  THEN << ContactPrompt, form, slot >>
  ELSE IF selected = {} \/ slot = "" THEN << SelectPrompt, form, slot >>
       ELSE LET artist == CHOOSE a \in selected : TRUE
            IN << SentMessage(artist.name, slot), EmptyForm, "" >>

\* variant: only the name is required
SubmitResult_NameOnly(selected, slot, form) ==
  IF selected = {} \/ slot = "" THEN << SelectPrompt, form, slot >>
  ELSE IF form.plannerName = ""
       THEN << ContactPrompt, form, slot >>
       ELSE LET artist == CHOOSE a \in selected : TRUE
            IN << SentMessage(artist.name, slot), EmptyForm, "" >>

\* variant: a successful submit keeps the chosen slot
SubmitResult_KeepsSlot(selected, slot, form) ==
  IF selected = {} \/ slot = "" THEN << SelectPrompt, form, slot >>
  ELSE IF form.plannerName = "" \/ form.plannerEmail = ""
       THEN << ContactPrompt, form, slot >>
       ELSE LET artist == CHOOSE a \in selected : TRUE
            IN << SentMessage(artist.name, slot), EmptyForm, slot >>

\* what handleSubmit leaves behind: <<successMessage, formState, slot>>
SubmitResult(selected, slot, form) ==
  IF selected = {} \/ slot = "" THEN << SelectPrompt, form, slot >>
  ELSE IF form.plannerName = "" \/ form.plannerEmail = ""
       THEN << ContactPrompt, form, slot >>
       ELSE LET artist == CHOOSE a \in selected : TRUE
            IN << SentMessage(artist.name, slot), EmptyForm, "" >>

\* the form's submit button, rendered when an artist is selected
HandleSubmit ==
  /\ selectedArtist # {}
  /\ Event("handleSubmit", successMessage)
  /\ LET result == SubmitResult(selectedArtist, selectedAvailability, formState)
     IN /\ successMessage' = result[1]
        /\ formState' = result[2]
        /\ selectedAvailability' = result[3]
  /\ UNCHANGED << genreFilter, locationFilter, budget, eventType,
                  selectedArtistId >>

(* ---------------------------- specification ---------------------------- *)

Next ==
  \/ Reconcile
  \/ SetGenreFilter
  \/ SetLocationFilter
  \/ SetBudget
  \/ SetEventType
  \/ HandleBookClick
  \/ CardPillClick
  \/ PanelPillClick
  \/ HandleFormChange
  \/ HandleSubmit

Spec == Init /\ [][Next]_vars

\* React runs a passive effect whose dependencies changed after the render
\* commits: a pending effect run is never postponed forever
FairSpec == Spec /\ WF_vars(Reconcile)

TypeOK ==
  /\ initialArtists \in Rosters
  /\ genreFilter \in {"All"} \cup uniqueGenres
  /\ locationFilter \in {"All"} \cup uniqueLocations
  /\ budget \in BudgetValues \cup {resolvedMaxRate}
  /\ formState \in [plannerName : Texts, plannerEmail : Texts, eventDetails : Texts]

(* ------------------------- vocabulary of the claims -------------------- *)

\* the artist with this id is in the filtered list
Visible(id) == \E i \in DOMAIN filteredArtists : filteredArtists[i].id = id

\* the last user event replaced a filter criterion by a different value
FilterChanged ==
  \/ lastEvent[1] = "setGenreFilter" /\ lastEvent[2] # genreFilter
  \/ lastEvent[1] = "setLocationFilter" /\ lastEvent[2] # locationFilter
  \/ lastEvent[1] = "setBudget" /\ lastEvent[2] # budget

\* the step about to be taken is the user event op (effect runs start unsettled)
EventStep(op) == Settled /\ lastEvent'[1] = op

Mentions(message, text) == \E i \in DOMAIN message : message[i] = text

IsConfirmation(message) ==
  Len(message) > 0 /\ message[1] = "Booking inquiry sent for "

AllSlots ==
  UNION { { Catalogue[i].availability[k] : k \in DOMAIN Catalogue[i].availability } :
            i \in DOMAIN Catalogue }

(* ------------------------------- claims -------------------------------- *)

\* C1: the filtered list holds exactly the roster artists that pass the genre
\* test ("All" or one of the artist's genres), the location test ("All" or
\* the artist's location) and the budget test (rate <= budget), once each and
\* in roster order, whatever criteria were set before.
C1_FilterContract ==
  LET passes(a) ==
        /\ genreFilter = "All" \/ genreFilter \in { a.genres[k] : k \in DOMAIN a.genres }
        /\ locationFilter = "All" \/ locationFilter = a.location
        /\ ~(a.rate > budget)
      kept == { j \in DOMAIN initialArtists : passes(initialArtists[j]) }
      f == filteredArtists
  IN /\ Len(f) = Cardinality(kept)
     /\ \A i \in DOMAIN f : \E j \in kept : f[i] = initialArtists[j]
     /\ \A j \in kept : \E i \in DOMAIN f : f[i] = initialArtists[j]
     /\ \A i1, i2 \in DOMAIN f : \A j1, j2 \in kept :
          (i1 < i2 /\ f[i1] = initialArtists[j1] /\ f[i2] = initialArtists[j2])
            => j1 < j2

C1_Witness ==
  /\ genreFilter # "All"
  /\ locationFilter # "All"
  /\ budget < resolvedMaxRate
  /\ Len(filteredArtists) > 0
  /\ Len(filteredArtists) < Len(initialArtists)
  /\ \E i \in DOMAIN filteredArtists : filteredArtists[i].rate = budget

\* C2: once the effect has run, the selected id is "" or the id of an artist
\* of the filtered list.
C2_SelectedIsFiltered ==
  Settled => (selectedArtistId = "" \/ Visible(selectedArtistId))

C2_Witness ==
  /\ Settled
  /\ FilterChanged
  /\ pre.selectedArtistId # ""
  /\ ~Visible(pre.selectedArtistId)
  /\ selectedArtistId # ""
  /\ Visible(selectedArtistId)

\* C3: after a filter change that leaves the filtered list empty, the settled
\* state has no selected artist and no chosen slot.
C3_EmptyClears ==
  (Settled /\ FilterChanged /\ Len(filteredArtists) = 0)
    => (selectedArtistId = "" /\ selectedAvailability = "")

C3_Witness ==
  /\ Settled
  /\ FilterChanged
  /\ Len(filteredArtists) = 0
  /\ pre.selectedArtistId # ""
  /\ pre.selectedAvailability # ""
  /\ selectedArtistId = ""
  /\ selectedAvailability = ""

\* C4: after a filter change that leaves a non-empty filtered list without
\* the artist selected before it, the settled state selects the first
\* filtered artist and has no chosen slot.
C4_MoveToFirst ==
  (Settled /\ FilterChanged /\ Len(filteredArtists) > 0
     /\ ~Visible(pre.selectedArtistId))
    => (selectedArtistId = filteredArtists[1].id /\ selectedAvailability = "")

C4_Witness ==
  /\ Settled
  /\ FilterChanged
  /\ Len(filteredArtists) > 1
  /\ pre.selectedArtistId # ""
  /\ pre.selectedAvailability # ""
  /\ ~Visible(pre.selectedArtistId)
  /\ selectedArtistId = filteredArtists[1].id
  /\ selectedAvailability = ""

\* C5: after a filter change that leaves the selected artist in the filtered
\* list, the settled state has the same selected artist and the same slot.
C5_KeepWhenVisible ==
  (Settled /\ FilterChanged /\ Visible(pre.selectedArtistId))
    => /\ selectedArtistId = pre.selectedArtistId
       /\ selectedAvailability = pre.selectedAvailability

C5_Witness ==
  /\ Settled
  /\ FilterChanged
  /\ Len(filteredArtists) < Len(initialArtists)
  /\ Visible(pre.selectedArtistId)
  /\ pre.selectedAvailability # ""
  /\ selectedArtistId = pre.selectedArtistId
  /\ selectedAvailability = pre.selectedAvailability

\* C6: a submit with an artist selected, a slot chosen and name and email
\* filled in leaves a confirmation naming that artist and that slot, empties
\* the three form fields and the slot, and keeps the selected artist.
C6_SubmitSuccess ==
  [][ ( /\ EventStep("handleSubmit")
        /\ Visible(selectedArtistId)
        /\ selectedAvailability # ""
        /\ formState.plannerName # ""
        /\ formState.plannerEmail # "" )
      => /\ IsConfirmation(successMessage')
         /\ \E j \in DOMAIN initialArtists :
              /\ initialArtists[j].id = selectedArtistId
              /\ Mentions(successMessage', initialArtists[j].name)
         /\ Mentions(successMessage', selectedAvailability)
         /\ formState' = EmptyForm
         /\ selectedAvailability' = ""
         /\ selectedArtistId' = selectedArtistId ]_vars

C6_Witness ==
  /\ lastEvent[1] = "handleSubmit"
  /\ IsConfirmation(successMessage)
  /\ pre.selectedAvailability # ""
  /\ Mentions(successMessage, pre.selectedAvailability)
  /\ formState = EmptyForm
  /\ selectedAvailability = ""
  /\ selectedArtistId = pre.selectedArtistId

\* C7: a submit with no artist selected or no slot chosen leaves the
\* "Select an artist and availability" message and changes neither the form
\* fields nor the selection, whatever the form fields hold.
C7_SubmitNoSelection ==
  [][ ( /\ EventStep("handleSubmit")
        /\ (~Visible(selectedArtistId) \/ selectedAvailability = "") )
      => /\ successMessage' = SelectPrompt
         /\ formState' = formState
         /\ selectedArtistId' = selectedArtistId
         /\ selectedAvailability' = selectedAvailability ]_vars

C7_Witness ==
  /\ lastEvent[1] = "handleSubmit"
  /\ pre.selectedAvailability = ""
  /\ formState.plannerName = ""
  /\ formState.eventDetails # ""
  /\ successMessage = SelectPrompt

\* C8: a submit with an artist selected and a slot chosen but an empty name
\* or email leaves the name-and-email prompt, no confirmation, and changes
\* neither the form fields nor the slot nor the selected artist.
C8_SubmitNoContact ==
  [][ ( /\ EventStep("handleSubmit")
        /\ Visible(selectedArtistId)
        /\ selectedAvailability # ""
        /\ (formState.plannerName = "" \/ formState.plannerEmail = "") )
      => /\ successMessage' = ContactPrompt
         /\ ~IsConfirmation(successMessage')
         /\ formState' = formState
         /\ selectedAvailability' = selectedAvailability
         /\ selectedArtistId' = selectedArtistId ]_vars

C8_Witness ==
  /\ lastEvent[1] = "handleSubmit"
  /\ pre.selectedAvailability # ""
  /\ selectedAvailability = pre.selectedAvailability
  /\ formState.plannerName # ""
  /\ formState.plannerEmail = ""
  /\ successMessage = ContactPrompt

\* C9: a click on panel pill s when s is not the chosen slot makes s the
\* chosen slot; a second click on s right after it leaves no slot chosen;
\* neither click changes the selected artist.
C9_PanelToggle ==
  [][ \A s \in AllSlots :
        (Settled /\ lastEvent' = << "panelPill", s >>)
        => /\ selectedArtistId' = selectedArtistId
           /\ (selectedAvailability # s => selectedAvailability' = s)
           /\ (lastEvent = << "panelPill", s >> /\ pre.selectedAvailability # s)
                => selectedAvailability' = "" ]_vars

C9_Witness ==
  /\ lastEvent[1] = "panelPill"
  /\ pre.selectedAvailability = lastEvent[2]
  /\ selectedAvailability = ""
  /\ selectedArtistId = pre.selectedArtistId
  /\ selectedArtistId # ""

\* C10: a click on the card pill of slot s of artist a, when a is the
\* selected artist and s the chosen slot, leaves no slot chosen.
C10_CardPillToggles ==
  ( /\ lastEvent[1] = "cardPill"
    /\ pre.selectedArtistId = lastEvent[2][1]
    /\ pre.selectedAvailability = lastEvent[2][2] )
    => selectedAvailability = ""

\* the selected id is "" or the id of a filtered artist
Repaired == selectedArtistId = "" \/ Visible(selectedArtistId)

\* C11: every run of the effect leaves a repaired selection on which a
\* further run over the same filtered list changes nothing, so a pending run
\* is always followed by a settled state: the effect never keeps re-running.
C11_EffectSettles ==
  /\ [][ ~Settled =>
          /\ Repaired'
          /\ ReconcileSelection(filteredArtists', selectedArtistId',
                                selectedAvailability')
               = << selectedArtistId', selectedAvailability' >> ]_vars
  /\ (~Settled ~> Settled)

\* the effect has run for the changed criteria, moved the selection, and is
\* due once more because selectedArtistId is one of its dependencies
C11_Witness ==
  /\ FilterChanged
  /\ ~Settled
  /\ Len(effectDeps) = 4
  /\ effectDeps[1] = genreFilter
  /\ effectDeps[2] = locationFilter
  /\ effectDeps[3] = budget
  /\ effectDeps[4] # selectedArtistId
  /\ pre.selectedArtistId = effectDeps[4]
  /\ Repaired

\* C12: in a settled state no artist is selected exactly when the filtered
\* list is empty (no catalogue artist has the id ""), and a filter change
\* that widens an empty result selects the first filtered artist.
C12_SelectedIffNonEmpty ==
  Settled =>
    /\ (selectedArtistId = "") <=> (Len(filteredArtists) = 0)
    /\ (FilterChanged /\ pre.selectedArtistId = "" /\ Len(filteredArtists) > 0)
         => selectedArtistId = filteredArtists[1].id

C12_Witness ==
  /\ Settled
  /\ FilterChanged
  /\ pre.selectedArtistId = ""
  /\ Len(filteredArtists) > 1
  /\ selectedArtistId = filteredArtists[1].id
  /\ selectedArtistId # ""

\* C13: in a settled state a chosen slot is one of the availability slots of
\* the selected artist, who is in the filtered list.
C13_SlotOfSelectedArtist ==
  (Settled /\ selectedAvailability # "")
    => \E i \in DOMAIN filteredArtists :
         /\ filteredArtists[i].id = selectedArtistId
         /\ \E k \in DOMAIN filteredArtists[i].availability :
              filteredArtists[i].availability[k] = selectedAvailability

\* a card pill moved the selection to another artist who offers the slot
\* label that was chosen for the artist selected before
C13_Witness ==
  /\ Settled
  /\ lastEvent[1] = "cardPill"
  /\ pre.selectedArtistId # ""
  /\ pre.selectedArtistId # selectedArtistId
  /\ pre.selectedAvailability # ""
  /\ selectedAvailability = pre.selectedAvailability

\* C14: a confirmation uses up the slot choice: the submit that produces it
\* clears the slot, only a click on a slot pill chooses a slot again, and a
\* submit without a chosen slot leaves the "Select an artist and
\* availability" message whatever the form fields hold.
C14_NoSecondConfirmation ==
  [][ /\ (EventStep("handleSubmit") /\ IsConfirmation(successMessage'))
           => (selectedAvailability # "" /\ selectedAvailability' = "")
      /\ (selectedAvailability = "" /\ selectedAvailability' # "")
           => (Settled /\ lastEvent'[1] \in {"cardPill", "panelPill"})
      /\ (EventStep("handleSubmit") /\ selectedAvailability = "")
           => successMessage' = SelectPrompt ]_vars

\* a submit made with the form filled in again while the confirmation of the
\* submit before was still displayed and no slot was chosen
C14_Witness ==
  /\ lastEvent[1] = "handleSubmit"
  /\ IsConfirmation(lastEvent[2])
  /\ pre.selectedAvailability = ""
  /\ formState.plannerName # ""
  /\ formState.plannerEmail # ""
  /\ successMessage = SelectPrompt

AllIds == { Catalogue[i].id : i \in DOMAIN Catalogue }

\* C15: a Request click on the card of artist a selects a, clears the slot
\* and the status message and leaves the criteria, the event type and the
\* form fields as they are; the effect run that follows changes none of it.
C15_RequestSelects ==
  [][ /\ \A a \in AllIds :
           (Settled /\ lastEvent' = << "handleBookClick", a >>)
             => /\ selectedArtistId' = a
                /\ selectedAvailability' = ""
                /\ successMessage' = NoMessage
                /\ UNCHANGED << genreFilter, locationFilter, budget,
                                eventType, formState >>
      /\ (~Settled /\ lastEvent[1] = "handleBookClick")
           => UNCHANGED << selectedArtistId, selectedAvailability,
                           successMessage, genreFilter, locationFilter,
                           budget, eventType, formState >> ]_vars

\* Request moved the selection from an artist with a chosen slot to another
\* one, with text in the form, and the effect has run since
C15_Witness ==
  /\ Settled
  /\ lastEvent[1] = "handleBookClick"
  /\ selectedArtistId = lastEvent[2]
  /\ pre.selectedArtistId # selectedArtistId
  /\ pre.selectedAvailability # ""
  /\ selectedAvailability = ""
  /\ successMessage = NoMessage
  /\ formState.plannerName # ""
  /\ genreFilter # "All"
  /\ eventType # eventTypes[1]

\* C16: whenever the booking panel displays a "Booking inquiry sent for X on
\* S" confirmation (the form is rendered and the message is a confirmation),
\* X is the name of the selected artist.
C16_ConfirmationNamesSelected ==
  (Settled /\ IsConfirmation(successMessage))
    => \A artist \in selectedArtist : successMessage[2] = artist.name

\* C17: before the first user event the criteria are "All", "All" and the
\* highest rate of the roster (0 for an empty roster), the filtered list is
\* the roster, the first roster artist is selected (none for an empty
\* roster), no slot is chosen, the form is empty and there is no message.
C17_InitialState ==
  lastEvent[1] = "mount" =>
    /\ genreFilter = "All"
    /\ locationFilter = "All"
    /\ \A i \in DOMAIN initialArtists : initialArtists[i].rate <= budget
    /\ IF Len(initialArtists) = 0 THEN budget = 0
       ELSE \E i \in DOMAIN initialArtists : initialArtists[i].rate = budget
    /\ filteredArtists = initialArtists
    /\ selectedArtistId =
         (IF Len(initialArtists) = 0 THEN "" ELSE initialArtists[1].id)
    /\ selectedAvailability = ""
    /\ formState.plannerName = ""
    /\ formState.plannerEmail = ""
    /\ formState.eventDetails = ""
    /\ successMessage = NoMessage

\* a mounted page, its first effect run done, for a roster whose first
\* artist is not the only one and whose rates differ
C17_Witness ==
  /\ lastEvent[1] = "mount"
  /\ Settled
  /\ Len(initialArtists) > 1
  /\ \E i \in DOMAIN initialArtists : initialArtists[i].rate < budget
  /\ selectedArtistId = initialArtists[1].id
  /\ Len(filteredArtists) = Len(initialArtists)

====
